---- MODULE Spec2Model ----
(***************************************************************************)
(* Model of uplink/converters/marshmallow_.py: the MarshmallowConverter    *)
(* factory, its schema resolution and its two converter classes.           *)
(*                                                                         *)
(* The marshmallow library and the response object are the environment.    *)
(* They are modelled by what the adapter relies on: Schema subclassing,    *)
(* no-argument instantiation (which may raise), and load/dump returning a  *)
(* result with a data and an errors component, or raising when the schema  *)
(* is strict.                                                              *)
(***************************************************************************)
EXTENDS Integers, Sequences, FiniteSets, TLC

\* Bound on the number of converters the factory is asked to produce.
MaxConverters == 2

----------------------------------------------------------------------------
(* Python values that travel through convert: a tag, an id and a name.     *)
(* <<"User", 1, "Ann">> is a User object, <<"dict", 1, "Ann">> the raw     *)
(* JSON-like dict; id 0 and name "" stand for an absent field.             *)

Ids == {0, 1}
Names == {"", "Ann"}
Values == {"User", "dict"} \X Ids \X Names
NoValue == <<"", 0, "">>

(* A response object: json() returns body, or raises when the payload is   *)
(* not JSON.  A plain value passed to a request converter is wrapped the   *)
(* same way in the variable input.                                         *)
Responses == [ok : {TRUE}, body : Values] \cup {[ok |-> FALSE, body |-> NoValue]}
response_wrapping(body) == [ok |-> TRUE, body |-> body]

----------------------------------------------------------------------------
(* Things a caller may pass as type_: classes and instances.               *)

Obj(isclass, cls, strict, origin, serial) ==
    [isclass |-> isclass, cls |-> cls, strict |-> strict,
     origin |-> origin, serial |-> serial]

NoType == Obj(FALSE, "", FALSE, "", 0)

\* Schema subclasses whose no-argument instantiation succeeds.
GoodSchemaClasses == {"Schema", "UserSchema", "LossySchema", "StrictSchema"}
\* NeedsArgSchema.__init__ takes a required argument (TypeError);
\* PickySchema.__init__ raises ValueError.
BadSchemaClasses == {"NeedsArgSchema", "PickySchema"}
SchemaClasses == GoodSchemaClasses \cup BadSchemaClasses
OtherClasses == {"int", "Unrelated"}

Base(cls) ==
    CASE cls = "UserSchema" -> "Schema"
      [] cls = "LossySchema" -> "UserSchema"
      [] cls = "StrictSchema" -> "UserSchema"
      [] cls = "NeedsArgSchema" -> "Schema"
      [] cls = "PickySchema" -> "Schema"
      [] OTHER -> "object"

RECURSIVE issubclass(_, _)
issubclass(cls, base) ==
    \/ cls = base
    \/ cls # "object" /\ issubclass(Base(cls), base)

isclass(type_) == type_.isclass

isinstance(type_, base) == ~type_.isclass /\ issubclass(type_.cls, base)

\* class Meta: strict = True
ClassStrict(cls) == cls = "StrictSchema"

Classes == {Obj(TRUE, c, FALSE, "class", 0) : c \in SchemaClasses \cup OtherClasses}

\* Instances the caller built itself: Schema(), UserSchema(), LossySchema(),
\* the configured UserSchema(strict=True), and the non-schema object 5.
UserInstances ==
    {Obj(FALSE, c, FALSE, "user", 0) : c \in {"Schema", "UserSchema", "LossySchema"}}
    \cup {Obj(FALSE, "UserSchema", TRUE, "user", 0)}
    \cup {Obj(FALSE, "int", FALSE, "user", 0)}

Types == Classes \cup UserInstances

\* *args / **kwargs a caller may add to a make_* call.
ExtraArgs == {<<>>, <<"argument">>}

----------------------------------------------------------------------------
(* The schema library: instantiation, load and dump.                       *)

Call(fn, on, arg) == [fn |-> fn, on |-> on, arg |-> arg]

LibOk(data, errors) == [raised |-> FALSE, exc |-> "", data |-> data, errors |-> errors]
LibRaise(exc) == [raised |-> TRUE, exc |-> exc, data |-> NoValue, errors |-> {}]

\* The base Schema declares no field; the others require id.
FieldErrors(cls, v) == IF cls # "Schema" /\ v[2] = 0 THEN {"id"} ELSE {}

\* schema.dump(value): a MarshalResult (data, errors); raises when strict.
SchemaDump(schema, v) ==
    LET errors == FieldErrors(schema.cls, v)
        data == CASE schema.cls = "Schema" -> <<"dict", 0, "">>
                  [] schema.cls = "LossySchema" -> <<"dict", v[2], "">>
                  [] OTHER -> <<"dict", v[2], v[3]>>
    IN  IF errors # {} /\ schema.strict
        THEN LibRaise("ValidationError")
        ELSE LibOk(data, errors)

\* schema.load(raw): an UnmarshalResult (data, errors); raises when strict.
\* post_load builds the User only when there is no error.
SchemaLoad(schema, raw) ==
    LET errors == FieldErrors(schema.cls, raw)
        data == CASE schema.cls = "Schema" -> <<"dict", 0, "">>
                  [] errors # {} -> <<"dict", 0, raw[3]>>
                  [] OTHER -> <<"User", raw[2], raw[3]>>
    IN  IF errors # {} /\ schema.strict
        THEN LibRaise("ValidationError")
        ELSE LibOk(data, errors)

\* What type_() raises, "" when it returns.
CtorRaises(cls) ==
    CASE cls = "NeedsArgSchema" -> "TypeError"
      [] cls = "PickySchema" -> "ValueError"
      [] OTHER -> ""

\* type_(): the serial-th object the factory has instantiated.
Instantiate(type_, serial) == Obj(FALSE, type_.cls, ClassStrict(type_.cls), "factory", serial)

----------------------------------------------------------------------------
(* Results of the adapter's own functions.                                 *)

Converter(variant, schema) == [variant |-> variant, schema |-> schema]
NoConv == Converter("", NoType)

Result(kind, conv, value, exc, calls) ==
    [kind |-> kind, conv |-> conv, value |-> value, exc |-> exc, calls |-> calls]

ReturnNone(calls) == Result("None", NoConv, NoValue, "", calls)
ReturnConv(conv, calls) == Result("converter", conv, NoValue, "", calls)
ReturnValue(value, calls) == Result("value", NoConv, value, "", calls)
Raise(exc, calls) == Result("raise", NoConv, NoValue, exc, calls)

Resolution(raised, exc, schema, calls) ==
    [raised |-> raised, exc |-> exc, schema |-> schema, calls |-> calls]
NoResolution == Resolution(FALSE, "", NoType, <<>>)

\* _get_schema gone wrong: a schema instance is instantiated anew from its
\* class instead of being returned as it is.
_get_schema_reinstantiates(type_, serial) ==
    IF issubclass(type_.cls, "Schema")
    THEN IF CtorRaises(type_.cls) # ""
         THEN Resolution(TRUE, CtorRaises(type_.cls), NoType,
                         <<Call("instantiate", type_, NoValue)>>)
         ELSE Resolution(FALSE, "", Instantiate(type_, serial),
                         <<Call("instantiate", type_, NoValue)>>)
    ELSE Resolution(TRUE, "ValueError", NoType, <<>>)

\* MarshmallowConverter._get_schema
_get_schema(type_, serial) ==
    IF isclass(type_) /\ issubclass(type_.cls, "Schema")
    THEN IF CtorRaises(type_.cls) # ""
         THEN Resolution(TRUE, CtorRaises(type_.cls), NoType,
                         <<Call("instantiate", type_, NoValue)>>)
         ELSE Resolution(FALSE, "", Instantiate(type_, serial),
                         <<Call("instantiate", type_, NoValue)>>)
    ELSE IF isinstance(type_, "Schema")
    THEN Resolution(FALSE, "", type_, <<>>)
    ELSE Resolution(TRUE, "ValueError", NoType, <<>>)

\* _make_converter gone wrong: no except clause, the resolution error escapes.
_make_converter_nocatch(converter_cls, type_, serial) ==
    LET r == _get_schema(type_, serial)
    IN  [resolved |-> r,
         ret |-> IF r.raised
                 THEN Raise(r.exc, r.calls)
                 ELSE ReturnConv(Converter(converter_cls, r.schema), r.calls)]

\* _make_converter gone wrong: the converter wraps type_, not the schema.
_make_converter_wraps_type(converter_cls, type_, serial) ==
    LET r == _get_schema(type_, serial)
    IN  [resolved |-> r,
         ret |-> IF r.raised
                 THEN IF r.exc = "ValueError"
                      THEN ReturnNone(r.calls)
                      ELSE Raise(r.exc, r.calls)
                 ELSE ReturnConv(Converter(converter_cls, type_), r.calls)]

\* MarshmallowConverter._make_converter: what it returns (ret) and what its
\* call of _get_schema did (resolved).
_make_converter(converter_cls, type_, serial) ==
    LET r == _get_schema(type_, serial)
    IN  [resolved |-> r,
         ret |-> IF r.raised
                 THEN IF r.exc = "ValueError"
                      THEN ReturnNone(r.calls)
                      ELSE Raise(r.exc, r.calls)
                 ELSE ReturnConv(Converter(converter_cls, r.schema), r.calls)]

\* ResponseBodyConverter.convert gone wrong: the decoded body is returned as
\* it is, without the schema's load.
ResponseBodyConverter_convert_noload(self, response) ==
    IF ~response.ok
    THEN Raise("JSONDecodeError", <<Call("json", NoType, NoValue)>>)
    ELSE ReturnValue(response.body, <<Call("json", NoType, NoValue)>>)

\* ResponseBodyConverter.convert gone wrong: dump in place of load.
ResponseBodyConverter_convert_dumps(self, response) ==
    IF ~response.ok
    THEN Raise("JSONDecodeError", <<Call("json", NoType, NoValue)>>)
    ELSE LET r == SchemaDump(self.schema, response.body)
             calls == <<Call("json", NoType, NoValue),
                        Call("dump", self.schema, response.body)>>
         IN  IF r.raised THEN Raise(r.exc, calls) ELSE ReturnValue(r.data, calls)

\* MarshmallowConverter.ResponseBodyConverter.convert
ResponseBodyConverter_convert(self, response) ==
    IF ~response.ok
    THEN Raise("JSONDecodeError", <<Call("json", NoType, NoValue)>>)
    ELSE LET r == SchemaLoad(self.schema, response.body)
             calls == <<Call("json", NoType, NoValue),
                        Call("load", self.schema, response.body)>>
         IN  IF r.raised THEN Raise(r.exc, calls) ELSE ReturnValue(r.data, calls)

\* RequestBodyConverter.convert gone wrong: load in place of dump.
RequestBodyConverter_convert_loads(self, value) ==
    LET r == SchemaLoad(self.schema, value)
        calls == <<Call("load", self.schema, value)>>
    IN  IF r.raised THEN Raise(r.exc, calls) ELSE ReturnValue(r.data, calls)

\* RequestBodyConverter.convert gone wrong: the schema's error is caught and
\* None returned.
RequestBodyConverter_convert_swallows(self, value) ==
    LET r == SchemaDump(self.schema, value)
        calls == <<Call("dump", self.schema, value)>>
    IN  IF r.raised THEN ReturnNone(calls) ELSE ReturnValue(r.data, calls)

\* MarshmallowConverter.RequestBodyConverter.convert
RequestBodyConverter_convert(self, value) ==
    LET r == SchemaDump(self.schema, value)
        calls == <<Call("dump", self.schema, value)>>
    IN  IF r.raised THEN Raise(r.exc, calls) ELSE ReturnValue(r.data, calls)

----------------------------------------------------------------------------
VARIABLES
    marshmallow,   \* the class attribute: "module", or "None" when the import failed
    factory,       \* a MarshmallowConverter object has been constructed
    made,          \* the converters the factory has returned
    nobjects,      \* how many schema objects the factory has instantiated
    op,            \* the last operation called
    type_,         \* its type_ argument (make_* calls)
    extra,         \* its extra arguments (make_* calls)
    self,          \* the converter it was called on (convert calls)
    input,         \* its argument (convert calls)
    resolved,      \* what _get_schema did in it (make_*_body_converter calls)
    ret            \* how it ended

vars == <<marshmallow, factory, made, nobjects, op, type_, extra, self, input, resolved, ret>>

NoInput == [ok |-> FALSE, body |-> NoValue]

Init ==
    /\ marshmallow \in {"module", "None"}
    /\ factory = FALSE
    /\ made = {}
    /\ nobjects = 0
    /\ op = ""
    /\ type_ = NoType
    /\ extra = <<>>
    /\ self = NoConv
    /\ input = NoInput
    /\ resolved = NoResolution
    /\ ret = ReturnNone(<<>>)

\* __init__ gone wrong: the availability of marshmallow is not checked.
init_unchecked == ReturnNone(<<>>)

\* MarshmallowConverter.__init__
__init__ ==
    IF marshmallow = "None"
    THEN Raise("ImportError", <<Call("marshmallow is None", NoType, NoValue)>>)
    ELSE ReturnNone(<<Call("marshmallow is None", NoType, NoValue)>>)

Construct ==
    /\ ret' = __init__
    /\ factory' = (factory \/ __init__.kind # "raise")
    /\ op' = "__init__"
    /\ type_' = NoType
    /\ extra' = <<>>
    /\ self' = NoConv
    /\ input' = NoInput
    /\ resolved' = NoResolution
    /\ UNCHANGED <<marshmallow, made, nobjects>>

\* A make_*_body_converter call: the converter it returns is kept in made.
MakeBody(name, converter_cls, t, args) ==
    LET m == _make_converter(converter_cls, t, nobjects + 1)
        r == m.ret
    IN  /\ factory
        /\ r.kind = "converter" => Cardinality(made) < MaxConverters
        /\ ret' = r
        /\ resolved' = m.resolved
        /\ made' = IF r.kind = "converter" THEN made \cup {r.conv} ELSE made
        /\ nobjects' = IF r.kind = "converter" /\ r.conv.schema.origin = "factory"
                       THEN nobjects + 1 ELSE nobjects
        /\ op' = name
        /\ type_' = t
        /\ extra' = args
        /\ self' = NoConv
        /\ input' = NoInput
        /\ UNCHANGED <<marshmallow, factory>>

make_request_body_converter ==
    \E t \in Types, args \in ExtraArgs :
        MakeBody("make_request_body_converter", "RequestBodyConverter", t, args)

make_response_body_converter ==
    \E t \in Types, args \in ExtraArgs :
        MakeBody("make_response_body_converter", "ResponseBodyConverter", t, args)

\* make_string_converter gone wrong: it resolves type_ like its two siblings.
string_converter_delegates(t, args) == _make_converter("StringConverter", t, 1).ret

\* What MarshmallowConverter.make_string_converter returns.
string_converter(t, args) == ReturnNone(<<>>)

make_string_converter ==
    \E t \in Types, args \in ExtraArgs :
        /\ factory
        /\ ret' = string_converter(t, args)
        /\ op' = "make_string_converter"
        /\ type_' = t
        /\ extra' = args
        /\ self' = NoConv
        /\ input' = NoInput
        /\ resolved' = NoResolution
        /\ UNCHANGED <<marshmallow, factory, made, nobjects>>

ConvertResponse ==
    \E c \in made, response \in Responses :
        /\ c.variant = "ResponseBodyConverter"
        /\ ret' = ResponseBodyConverter_convert(c, response)
        /\ op' = "ResponseBodyConverter.convert"
        /\ self' = c
        /\ input' = response
        /\ type_' = NoType
        /\ extra' = <<>>
        /\ resolved' = NoResolution
        /\ UNCHANGED <<marshmallow, factory, made, nobjects>>

ConvertRequest ==
    \E c \in made, value \in Values :
        /\ c.variant = "RequestBodyConverter"
        /\ ret' = RequestBodyConverter_convert(c, value)
        /\ op' = "RequestBodyConverter.convert"
        /\ self' = c
        /\ input' = response_wrapping(value)
        /\ type_' = NoType
        /\ extra' = <<>>
        /\ resolved' = NoResolution
        /\ UNCHANGED <<marshmallow, factory, made, nobjects>>

Next ==
    \/ Construct
    \/ make_request_body_converter
    \/ make_response_body_converter
    \/ make_string_converter
    \/ ConvertResponse
    \/ ConvertRequest

Spec == Init /\ [][Next]_vars

----------------------------------------------------------------------------
(* Vocabulary of the properties.                                           *)

MakeBodyOps == {"make_request_body_converter", "make_response_body_converter"}
MakeOps == MakeBodyOps \cup {"make_string_converter"}
ConvertOps == {"ResponseBodyConverter.convert", "RequestBodyConverter.convert"}

\* type_ is a subclass of the base schema type / an instance of it.
IsSchemaSubclass(t) == t.isclass /\ t.cls \in SchemaClasses
IsSchemaInstance(t) == ~t.isclass /\ t.cls \in SchemaClasses
IsNonSchema(t) == ~IsSchemaSubclass(t) /\ ~IsSchemaInstance(t)

VariantOf(name) ==
    IF name = "make_request_body_converter"
    THEN "RequestBodyConverter" ELSE "ResponseBodyConverter"

Fns(calls) == {calls[i].fn : i \in DOMAIN calls}

\* Two schema instances behave the same: equal load and dump on every value.
SameBehaviour(a, b) ==
    \A v \in Values :
        /\ SchemaLoad(a, v) = SchemaLoad(b, v)
        /\ SchemaDump(a, v) = SchemaDump(b, v)

\* S(): the instance a caller gets from instantiating class S itself.
DefaultInstance(cls) == Obj(FALSE, cls, ClassStrict(cls), "user", 0)

\* load and dump of schema are mutually inverse on obj.
Inverse(schema, obj) ==
    /\ ~SchemaDump(schema, obj).raised
    /\ ~SchemaLoad(schema, SchemaDump(schema, obj).data).raised
    /\ SchemaLoad(schema, SchemaDump(schema, obj).data).data = obj

----------------------------------------------------------------------------
\* C1: for a type_ that is neither a subclass nor an instance of the base
\* schema type, whatever the extra arguments, make_request_body_converter
\* and make_response_body_converter return None and raise nothing.
C1_NonSchemaDeclines ==
    (op \in MakeBodyOps /\ IsNonSchema(type_)) =>
        /\ ret.kind = "None"
        /\ ret.exc = ""

C1_Witness ==
    /\ op = "make_response_body_converter"
    /\ type_ = Obj(TRUE, "Unrelated", FALSE, "class", 0)
    /\ extra # <<>>
    /\ ret.kind = "None"

\* C2: when schema resolution succeeds, make_request_body_converter returns
\* a RequestBodyConverter and make_response_body_converter a
\* ResponseBodyConverter holding exactly the resolved schema; every converter
\* the factory has produced holds a schema instance.
C2_ConverterHoldsResolvedSchema ==
    /\ (op \in MakeBodyOps /\ ~resolved.raised) =>
          /\ ret.kind = "converter"
          /\ ret.conv.variant = VariantOf(op)
          /\ ret.conv.schema = resolved.schema
          /\ ret.conv \in made
    /\ \A c \in made :
          /\ c.variant \in {"RequestBodyConverter", "ResponseBodyConverter"}
          /\ IsSchemaInstance(c.schema)

C2_Witness ==
    /\ op = "make_request_body_converter"
    /\ type_.isclass
    /\ ret.kind = "converter"
    /\ Cardinality(made) = 2
    /\ \E c \in made : c.variant = "ResponseBodyConverter" /\ c.schema.origin = "user"

\* C3 as stated: resolution has exactly three outcomes: a schema subclass is
\* instantiated and the new instance returned, a schema instance is returned
\* unchanged, anything else fails with the resolution error.
C3_ThreeOutcomes ==
    op \in MakeBodyOps =>
        /\ IsSchemaSubclass(type_) =>
              /\ ~resolved.raised
              /\ resolved.schema = Instantiate(type_, nobjects)
        /\ IsSchemaInstance(type_) =>
              /\ ~resolved.raised
              /\ resolved.schema = type_
        /\ IsNonSchema(type_) =>
              /\ resolved.raised
              /\ resolved.exc = "ValueError"

\* C3 (amended): a schema subclass is instantiated with no arguments and,
\* when the instantiation returns, the new instance is the result, which
\* behaves as the instance S() resolves; when the instantiation raises, that
\* error is the outcome.  A schema instance is returned unchanged, anything
\* else fails with the resolution error.
C3_ResolutionOutcomes ==
    op \in MakeBodyOps =>
        /\ IsSchemaSubclass(type_) =>
              /\ Fns(resolved.calls) = {"instantiate"}
              /\ resolved.calls[1].on = type_
              /\ IF CtorRaises(type_.cls) = ""
                 THEN /\ ~resolved.raised
                      /\ resolved.schema = Instantiate(type_, nobjects)
                      /\ resolved.schema \notin UserInstances
                      /\ SameBehaviour(
                            resolved.schema,
                            _get_schema(DefaultInstance(type_.cls), nobjects + 1).schema)
                 ELSE /\ resolved.raised
                      /\ resolved.exc = CtorRaises(type_.cls)
        /\ IsSchemaInstance(type_) =>
              /\ ~resolved.raised
              /\ resolved.schema = type_
              /\ resolved.calls = <<>>
        /\ IsNonSchema(type_) =>
              /\ resolved.raised
              /\ resolved.exc = "ValueError"
              /\ resolved.calls = <<>>

C3_Witness ==
    /\ op = "make_response_body_converter"
    /\ type_ = Obj(TRUE, "StrictSchema", FALSE, "class", 0)
    /\ resolved.schema.origin = "factory"
    /\ resolved.schema.strict

\* C4: constructing the factory fails with the missing-dependency error when
\* the schema library is unavailable and succeeds otherwise; the check is
\* made at construction only: no make_* call makes it or raises that error.
C4_CheckedAtConstruction ==
    /\ op = "__init__" =>
          /\ ret.calls = <<Call("marshmallow is None", NoType, NoValue)>>
          /\ IF marshmallow = "None"
             THEN ret.kind = "raise" /\ ret.exc = "ImportError"
             ELSE ret.kind = "None" /\ factory
    /\ marshmallow = "None" => ~factory
    /\ op \in MakeOps =>
          /\ factory
          /\ ret.exc # "ImportError"
          /\ "marshmallow is None" \notin Fns(ret.calls)

C4_Witness ==
    /\ op = "__init__"
    /\ marshmallow = "None"
    /\ ret.kind = "raise"
    /\ ret.exc = "ImportError"
    /\ ~factory

\* C5: round trip: when load and dump of the held schema are mutually inverse
\* on obj, converting the response whose JSON body is what
\* RequestBodyConverter(S).convert(obj) returned gives back obj.
C5_RoundTrip ==
    \A obj \in Values :
        LET sent == RequestBodyConverter_convert(
                        Converter("RequestBodyConverter", self.schema), obj)
        IN  (/\ op = "ResponseBodyConverter.convert"
             /\ Inverse(self.schema, obj)
             /\ sent.kind = "value"
             /\ input = response_wrapping(sent.value)) =>
                /\ ret.kind = "value"
                /\ ret.value = obj

C5_Witness ==
    /\ op = "ResponseBodyConverter.convert"
    /\ self.schema.cls = "UserSchema"
    /\ Inverse(self.schema, <<"User", 1, "Ann">>)
    /\ input = response_wrapping(<<"dict", 1, "Ann">>)
    /\ ret.value = <<"User", 1, "Ann">>

\* C6: ResponseBodyConverter.convert takes the JSON-decoded body of the
\* response, passes exactly that body to the load (never the dump) of the
\* held schema and returns the data component of the result; the converter
\* keeps its schema.
C6_ResponseConvertLoads ==
    op = "ResponseBodyConverter.convert" =>
        /\ self \in made
        /\ self.variant = "ResponseBodyConverter"
        /\ ret.calls[1] = Call("json", NoType, NoValue)
        /\ "dump" \notin Fns(ret.calls)
        /\ input.ok =>
              /\ ret.calls = <<Call("json", NoType, NoValue),
                               Call("load", self.schema, input.body)>>
              /\ ~SchemaLoad(self.schema, input.body).raised =>
                    /\ ret.kind = "value"
                    /\ ret.value = SchemaLoad(self.schema, input.body).data

C6_Witness ==
    /\ op = "ResponseBodyConverter.convert"
    /\ self.schema.cls = "LossySchema"
    /\ input = response_wrapping(<<"dict", 1, "Ann">>)
    /\ ret.kind = "value"
    /\ ret.value = <<"User", 1, "Ann">>

\* C7: RequestBodyConverter.convert calls the dump (never the load) of the
\* held schema on exactly the given value and returns the data component of
\* the result; the converter keeps its schema.
C7_RequestConvertDumps ==
    op = "RequestBodyConverter.convert" =>
        /\ self \in made
        /\ self.variant = "RequestBodyConverter"
        /\ ret.calls = <<Call("dump", self.schema, input.body)>>
        /\ ~SchemaDump(self.schema, input.body).raised =>
              /\ ret.kind = "value"
              /\ ret.value = SchemaDump(self.schema, input.body).data

C7_Witness ==
    /\ op = "RequestBodyConverter.convert"
    /\ self.schema.cls = "LossySchema"
    /\ input.body = <<"User", 1, "Ann">>
    /\ ret.kind = "value"
    /\ ret.value = <<"dict", 1, "">>

\* C8: an error raised by the schema's load or dump, or by the response's
\* JSON accessor, during convert reaches the caller as it is: convert raises
\* that same error and returns no value.
C8_ErrorsPropagate ==
    /\ (op = "ResponseBodyConverter.convert" /\ ~input.ok) =>
          /\ ret.kind = "raise"
          /\ ret.exc = "JSONDecodeError"
          /\ ret.value = NoValue
          /\ Len(ret.calls) = 1
    /\ (/\ op = "ResponseBodyConverter.convert"
        /\ input.ok
        /\ SchemaLoad(self.schema, input.body).raised) =>
          /\ ret.kind = "raise"
          /\ ret.exc = SchemaLoad(self.schema, input.body).exc
          /\ ret.value = NoValue
          /\ Len(ret.calls) = 2
    /\ (/\ op = "RequestBodyConverter.convert"
        /\ SchemaDump(self.schema, input.body).raised) =>
          /\ ret.kind = "raise"
          /\ ret.exc = SchemaDump(self.schema, input.body).exc
          /\ ret.value = NoValue
          /\ Len(ret.calls) = 1

C8_Witness ==
    /\ op = "RequestBodyConverter.convert"
    /\ self.schema.strict
    /\ input.body[2] = 0
    /\ ret.kind = "raise"
    /\ ret.exc = "ValidationError"

\* C9: make_string_converter returns None for every type_ (schema class,
\* schema instance or not a schema) and any extra arguments.
C9_NoStringConverter ==
    op = "make_string_converter" =>
        /\ ret.kind = "None"
        /\ ret.exc = ""
        /\ ret.calls = <<>>

C9_Witness ==
    /\ op = "make_string_converter"
    /\ IsSchemaInstance(type_)
    /\ extra # <<>>
    /\ ret.kind = "None"

\* C10: make_request_body_converter and make_response_body_converter return
\* None only for a type_ that is neither a subclass nor an instance of the
\* base schema type; an error raised by the no-argument instantiation of a
\* schema subclass, of whatever kind, reaches the caller.
C10_DeclineOnlyNonSchema ==
    op \in MakeBodyOps =>
        /\ ret.kind = "None" => IsNonSchema(type_)
        /\ (IsSchemaSubclass(type_) /\ CtorRaises(type_.cls) # "") =>
              /\ ret.kind = "raise"
              /\ ret.exc = CtorRaises(type_.cls)

====
